---------------------------- MODULE Spec2Model ----------------------------
(* Hotel booking application (src/index.py): the three persisted          *)
(* collections rooms/bookings/customers, the per-session script runs of   *)
(* the "Book Room" and "Room Management" pages, the one-time room         *)
(* seeding, the validators and the pricing function.                      *)
(*                                                                        *)
(* Text values (names, e-mail addresses, phone numbers) are sequences of  *)
(* one-character strings, so that strip() and the two regular             *)
(* expressions are computed character by character.  Money is kept in     *)
(* hundredths of a rupee: round(total * (1 - discount), 2) is the exact   *)
(* number of hundredths total * (100 - percent).                          *)
EXTENDS Integers, Sequences, FiniteSets, TLC

-----------------------------------------------------------------------------
(* Bounds of the model *)

NumSessions == 2
MaxSubmits == 2
MaxUpdates == 1
MaxFaults == 1
MaxClock == 1
MaxNights == 8
MaxGuests == 6

Sessions == 1..NumSessions

-----------------------------------------------------------------------------
(* Characters and str.strip() *)

Lower == {"a","b","c","d","e","f","g","h","i","j","k","l","m",
          "n","o","p","q","r","s","t","u","v","w","x","y","z"}
Upper == {"A","B","C","D","E","F","G","H","I","J","K","L","M",
          "N","O","P","Q","R","S","T","U","V","W","X","Y","Z"}
Digit == {"0","1","2","3","4","5","6","7","8","9"}
Letter == Lower \cup Upper
Whitespace == {" ", "\t", "\n", "\r"}

RECURSIVE lstrip(_)
lstrip(s) ==
    IF s # <<>> /\ Head(s) \in Whitespace THEN lstrip(Tail(s)) ELSE s

RECURSIVE rstrip(_)
rstrip(s) ==
    IF s # <<>> /\ s[Len(s)] \in Whitespace
    THEN rstrip(SubSeq(s, 1, Len(s) - 1))
    ELSE s

strip(s) == rstrip(lstrip(s))

AllIn(s, from, to, class) == \A i \in from..to : s[i] \in class

-----------------------------------------------------------------------------
(* validate_email: re.match(r'^[a-zA-Z0-9._%+-]+@[a-zA-Z0-9.-]+\.[a-zA-Z]{2,}$') *)
(* on the text as typed.  '$' matches at the end and before a final newline.     *)

EmailLocalChars == Letter \cup Digit \cup {".", "_", "%", "+", "-"}
EmailDomainChars == Letter \cup Digit \cup {".", "-"}

EmailMatchesUpTo(email, n) ==
    \E at \in 2..n : \E dot \in (at + 2)..(n - 2) :
        /\ AllIn(email, 1, at - 1, EmailLocalChars)
        /\ email[at] = "@"
        /\ AllIn(email, at + 1, dot - 1, EmailDomainChars)
        /\ email[dot] = "."
        /\ AllIn(email, dot + 1, n, Letter)

validate_email(email) ==
    \/ EmailMatchesUpTo(email, Len(email))
    \/ /\ Len(email) > 0
       /\ email[Len(email)] = "\n"
       /\ EmailMatchesUpTo(email, Len(email) - 1)

(* validate_phone: re.match(r'^(\+91[-\s]?)?[6-9]\d{9}$', phone.strip()) *)

PhoneSubscriber(p) ==
    /\ Len(p) = 10
    /\ p[1] \in {"6", "7", "8", "9"}
    /\ AllIn(p, 2, 10, Digit)

validate_phone(phone) ==
    LET p == strip(phone) IN
    \/ PhoneSubscriber(p)
    \/ /\ Len(p) = 13
       /\ SubSeq(p, 1, 3) = <<"+", "9", "1">>
       /\ PhoneSubscriber(SubSeq(p, 4, 13))
    \/ /\ Len(p) = 14
       /\ SubSeq(p, 1, 3) = <<"+", "9", "1">>
       /\ p[4] \in {"-"} \cup Whitespace
       /\ PhoneSubscriber(SubSeq(p, 5, 14))

-----------------------------------------------------------------------------
(* calculate_booking_amount, in hundredths of a rupee *)

RoomTypes == {"Standard", "Deluxe", "Suite", "Presidential"}

base_prices ==
    [t \in RoomTypes |->
        CASE t = "Standard" -> 2500
          [] t = "Deluxe" -> 4000
          [] t = "Suite" -> 7500
          [] t = "Presidential" -> 15000]

Max(a, b) == IF a >= b THEN a ELSE b

ExtraGuestCharge_to3(guests, nights) == Max(0, guests - 3) * 500 * nights

ExtraGuestCharge(guests, nights) == Max(0, guests - 2) * 500 * nights

DiscountPercent(nights) ==
    IF nights >= 7 THEN 15
    ELSE IF nights >= 3 THEN 10
    ELSE 0

calculate_booking_amount(room_type, nights, guests) ==
    LET base_price == IF room_type \in DOMAIN base_prices
                      THEN base_prices[room_type]
                      ELSE 2500
        extra_guest_charge == ExtraGuestCharge(guests, nights)
        discount == DiscountPercent(nights)
        total == (base_price * nights) + extra_guest_charge
    IN  total * (100 - discount)

NoAmount == -1

-----------------------------------------------------------------------------
(* Rooms *)

Room(number, type, price, capacity, status) ==
    [room_number |-> number, room_type |-> type, price |-> price,
     capacity |-> capacity, status |-> status]

default_rooms ==
    << Room("101", "Standard", 2500, 2, "Available"),
       Room("102", "Standard", 2500, 2, "Available"),
       Room("201", "Deluxe", 4000, 3, "Available"),
       Room("202", "Deluxe", 4000, 3, "Available"),
       Room("301", "Suite", 7500, 4, "Available"),
       Room("302", "Suite", 7500, 4, "Available"),
       Room("401", "Presidential", 15000, 6, "Available") >>

Statuses == {"Available", "Occupied", "Maintenance", "Cleaning"}

NeedsSeed_always(rooms) == TRUE

NeedsSeed(rooms) == rooms = <<>>

IsAvailable(r) == r.status = "Available"

AvailableRooms(rooms) == SelectSeq(rooms, IsAvailable)

RoomTypeOptions(available) ==
    {available[i].room_type : i \in DOMAIN available}

NoRoom == Room("None", "None", 0, 0, "None")

SelectRoom_anytype(available, room_type) ==
    IF available = <<>> THEN NoRoom ELSE available[1]

SelectRoom(available, room_type) ==
    LET hits == {i \in DOMAIN available : available[i].room_type = room_type}
    IN  IF hits = {} THEN NoRoom
        ELSE available[CHOOSE i \in hits : \A j \in hits : i <= j]

MarkOccupied(rooms, number) ==
    [i \in DOMAIN rooms |->
        IF rooms[i].room_number = number
        THEN [rooms[i] EXCEPT !.status = "Occupied"]
        ELSE rooms[i]]

SetStatus(rooms, number, status) ==
    LET hits == {i \in DOMAIN rooms : rooms[i].room_number = number}
    IN  [i \in DOMAIN rooms |->
            IF hits # {} /\ i = (CHOOSE k \in hits : \A j \in hits : k <= j)
            THEN [rooms[i] EXCEPT !.status = status]
            ELSE rooms[i]]

-----------------------------------------------------------------------------
(* Form values of the booking form (lines 246-270) *)

Text_A == <<"A">>
Text_B == <<"B">>
Text_blank == <<" ">>
Email_a == <<"a", "@", "b", ".", "c", "o">>
Email_c == <<"c", "@", "d", ".", "i", "n">>
Email_bad == <<"b", "a", "d", "@">>
Email_padded == <<" ", "a", "@", "b", ".", "c", "o">>
Phone_ok == <<"9", "8", "7", "6", "5", "4", "3", "2", "1", "0">>
Phone_prefixed ==
    <<"+", "9", "1", " ", "9", "8", "7", "6", "5", "4", "3", "2", "1", "0">>
Phone_low == <<"1", "2", "3", "4", "5", "6", "7", "8", "9", "0">>
Phone_padded == <<" ", "9", "8", "7", "6", "5", "4", "3", "2", "1", "0", " ">>

Request(name, email, phone, address, guests, check_in, check_out) ==
    [name |-> name, email |-> email, phone |-> phone, address |-> address,
     guests |-> guests, check_in |-> check_in, check_out |-> check_out]

(* The requests the sessions of Spec submit. *)
SampleRequests ==
    { Request(Text_A, Email_a, Phone_ok, "X", 2, 1, 2),
      Request(Text_B, Email_a, Phone_prefixed, "Y", 3, 1, 4),
      Request(<<>>, Email_bad, Phone_ok, "X", 2, 2, 1) }

SampleTypes == {"Standard", "Presidential"}

(* The requests the single form of SpecForm submits. *)
AllRequests ==
    { Request(n, e, p, "X", g, ci, co) :
        n \in {<<>>, Text_blank, Text_A},
        e \in {<<>>, Email_bad, Email_padded, Email_a},
        p \in {<<>>, Phone_low, Phone_padded, Phone_ok},
        g \in {1, 2, 3, MaxGuests},
        ci \in {1, 2},
        co \in 1..(MaxNights + 1) }

NoRequest == Request(<<>>, <<>>, <<>>, "", 0, 0, 0)

FormValues(r, room_type) ==
    [name |-> r.name, email |-> r.email, phone |-> r.phone,
     address |-> r.address, guests |-> r.guests, check_in |-> r.check_in,
     check_out |-> r.check_out, room_type |-> room_type]

NoForm == FormValues(NoRequest, "None")

-----------------------------------------------------------------------------
(* Validation of a submitted form (lines 282-292) *)

OnlyIf(cond, message) == IF cond THEN <<message>> ELSE <<>>

ValidationErrors_first(r) ==
    IF strip(r.name) = <<>> THEN <<"Customer name is required">>
    ELSE IF strip(r.email) = <<>> \/ ~validate_email(r.email)
    THEN <<"Valid email address is required">>
    ELSE IF strip(r.phone) = <<>> \/ ~validate_phone(r.phone)
    THEN <<"Valid phone number is required">>
    ELSE OnlyIf(r.check_out <= r.check_in,
                "Check-out date must be after check-in date")

ValidationErrors_nodate(r) ==
    OnlyIf(strip(r.name) = <<>>, "Customer name is required")
    \o OnlyIf(strip(r.email) = <<>> \/ ~validate_email(r.email),
              "Valid email address is required")
    \o OnlyIf(strip(r.phone) = <<>> \/ ~validate_phone(r.phone),
              "Valid phone number is required")

ValidationErrors(r) ==
    OnlyIf(strip(r.name) = <<>>, "Customer name is required")
    \o OnlyIf(strip(r.email) = <<>> \/ ~validate_email(r.email),
              "Valid email address is required")
    \o OnlyIf(strip(r.phone) = <<>> \/ ~validate_phone(r.phone),
              "Valid phone number is required")
    \o OnlyIf(r.check_out <= r.check_in,
              "Check-out date must be after check-in date")

-----------------------------------------------------------------------------
(* The booking and customer records (lines 303-321, 337-343).  The id is   *)
(* "BK" followed by datetime.now() formatted to the second: two ids are    *)
(* equal exactly when they were made in the same second.  The fields that  *)
(* nothing reads (id_proof, id_number, special_requests, booking_date,     *)
(* registration_date) are left out.                                        *)

BookingId(now) == <<"BK", now>>

MakeBooking(f, selected_room, n, amount, now) ==
    [booking_id |-> BookingId(now),
     customer_name |-> f.name,
     customer_email |-> f.email,
     customer_phone |-> f.phone,
     customer_address |-> f.address,
     room_number |-> selected_room.room_number,
     room_type |-> f.room_type,
     guests |-> f.guests,
     check_in |-> f.check_in,
     check_out |-> f.check_out,
     nights |-> n,
     total_amount |-> amount,
     status |-> "Confirmed"]

NoBooking == MakeBooking(NoForm, NoRoom, 0, NoAmount, 0)

IsNewCustomer_always(custs, email) == TRUE

IsNewCustomer(custs, email) ==
    ~ \E i \in DOMAIN custs : custs[i].email = email

MakeCustomer(b) ==
    [name |-> b.customer_name,
     email |-> b.customer_email,
     phone |-> b.customer_phone,
     address |-> b.customer_address]

-----------------------------------------------------------------------------
(* State *)

VARIABLES
    roomsFile,      \* hotel_data/rooms.json
    bookingsFile,   \* hotel_data/bookings.json
    customersFile,  \* hotel_data/customers.json
    clock,          \* datetime.now(), in seconds
    pc,             \* where each session's script run stands
    rooms,          \* each run's local list rooms
    form,           \* each run's form values (customer_name ... room_type)
    nights,         \* each run's local nights
    total_amount,   \* each run's local total_amount (NoAmount: unassigned)
    booking,        \* each run's local dict booking
    bookings,       \* each run's local list bookings
    customers,      \* each run's local list customers
    shown,          \* what the booking page of each session displays
    submits,        \* accepted submissions so far
    updates,        \* manual status updates so far
    faults,         \* failed reads so far
    call,           \* arguments of a direct call of calculate_booking_amount
    ret             \* its result

files == <<roomsFile, bookingsFile, customersFile>>
locals == <<rooms, form, nights, total_amount, booking, bookings, customers>>
counters == <<submits, updates, faults>>
direct == <<call, ret>>
vars == <<files, clock, pc, locals, shown, counters, direct>>

NoCall == [room_type |-> "None", nights |-> 0, guests |-> 0]

(* No run has started: no local is assigned, nothing is counted. *)
InitLocals ==
    /\ clock = 0
    /\ form = [s \in Sessions |-> NoForm]
    /\ nights = [s \in Sessions |-> 0]
    /\ total_amount = [s \in Sessions |-> NoAmount]
    /\ booking = [s \in Sessions |-> NoBooking]
    /\ bookings = [s \in Sessions |-> <<>>]
    /\ customers = [s \in Sessions |-> <<>>]
    /\ shown = [s \in Sessions |-> <<>>]
    /\ submits = 0
    /\ updates = 0
    /\ faults = 0

(* The store before the first run: no file exists, no session has run. *)
InitStore ==
    /\ roomsFile = <<>>
    /\ bookingsFile = <<>>
    /\ customersFile = <<>>
    /\ pc = [s \in Sessions |-> "new"]
    /\ rooms = [s \in Sessions |-> <<>>]
    /\ InitLocals

Init ==
    /\ InitStore
    /\ call = NoCall
    /\ ret = NoAmount

-----------------------------------------------------------------------------
(* HotelDataManager.load_data (lines 85-94): the file's records, or the    *)
(* empty list when the file is absent or the read raises.                  *)

LoadOutcomes(file) ==
    IF file # <<>> /\ faults < MaxFaults THEN {TRUE, FALSE} ELSE {TRUE}

load_data(file, ok) == IF ok THEN file ELSE <<>>

CountFault(ok) == faults' = IF ok THEN faults ELSE faults + 1

-----------------------------------------------------------------------------
(* Session initialization (lines 121-124) and                              *)
(* HotelDataManager.initialize_rooms (lines 105-119): the first script run *)
(* of every session reads the rooms and seeds them when the list it read   *)
(* is empty.                                                               *)

InitializeLoad(s) ==
    /\ pc[s] = "new"
    /\ \E ok \in LoadOutcomes(roomsFile) :
        /\ rooms' = [rooms EXCEPT ![s] = load_data(roomsFile, ok)]
        /\ CountFault(ok)
    /\ pc' = [pc EXCEPT ![s] = "seed"]
    /\ UNCHANGED <<files, clock, form, nights, total_amount, booking,
                   bookings, customers, shown, submits, updates, direct>>

InitializeSeed(s) ==
    /\ pc[s] = "seed"
    /\ roomsFile' = IF NeedsSeed(rooms[s]) THEN default_rooms ELSE roomsFile
    /\ rooms' = [rooms EXCEPT ![s] = <<>>]
    /\ pc' = [pc EXCEPT ![s] = "idle"]
    /\ UNCHANGED <<bookingsFile, customersFile, clock, form, nights,
                   total_amount, booking, bookings, customers, shown,
                   counters, direct>>

-----------------------------------------------------------------------------
(* booking_system (lines 223-348) *)

(* Lines 227-233: a run of the page reads the rooms and stops when none is *)
(* available.                                                              *)
BeginBooking(s) ==
    /\ pc[s] = "idle"
    /\ \E ok \in LoadOutcomes(roomsFile) :
        LET loaded == load_data(roomsFile, ok) IN
        /\ CountFault(ok)
        /\ IF AvailableRooms(loaded) = <<>>
           THEN /\ shown' = [shown EXCEPT ![s] =
                                <<"No rooms available for booking!">>]
                /\ rooms' = [rooms EXCEPT ![s] = <<>>]
                /\ pc' = [pc EXCEPT ![s] = "idle"]
           ELSE /\ shown' = [shown EXCEPT ![s] = <<>>]
                /\ rooms' = [rooms EXCEPT ![s] = loaded]
                /\ pc' = [pc EXCEPT ![s] = "form"]
    /\ UNCHANGED <<files, clock, form, nights, total_amount, booking,
                   bookings, customers, submits, updates, direct>>

(* Lines 273-277: the price is computed when nights > 0, and total_amount  *)
(* stays unassigned otherwise.                                             *)
Nights(f) == f.check_out - f.check_in

PriceShown_always(f) ==
    calculate_booking_amount(f.room_type, Nights(f), f.guests)

PriceShown(f) ==
    IF Nights(f) > 0
    THEN calculate_booking_amount(f.room_type, Nights(f), f.guests)
    ELSE NoAmount

(* The run's locals go when it ends. *)
EndRun(s) ==
    /\ rooms' = [rooms EXCEPT ![s] = <<>>]
    /\ form' = [form EXCEPT ![s] = NoForm]
    /\ nights' = [nights EXCEPT ![s] = 0]
    /\ total_amount' = [total_amount EXCEPT ![s] = NoAmount]
    /\ booking' = [booking EXCEPT ![s] = NoBooking]
    /\ bookings' = [bookings EXCEPT ![s] = <<>>]
    /\ customers' = [customers EXCEPT ![s] = <<>>]

(* Lines 281-321 for the form values f, with nights n and total_amount     *)
(* amount: the checks are collected and shown; a valid request takes the   *)
(* first available room of the type and builds the booking, reading        *)
(* datetime.now(), which is not before the last time read.                 *)
Handle(s, f, n, amount) ==
    LET errors == ValidationErrors(f)
        selected_room == SelectRoom(AvailableRooms(rooms[s]), f.room_type)
    IN
    /\ IF errors # <<>>
       THEN /\ shown' = [shown EXCEPT ![s] = errors]
            /\ pc' = [pc EXCEPT ![s] = "idle"]
            /\ EndRun(s)
            /\ UNCHANGED <<clock, submits>>
       ELSE IF selected_room = NoRoom
       THEN /\ pc' = [pc EXCEPT ![s] = "idle"]
            /\ EndRun(s)
            /\ UNCHANGED <<clock, shown, submits>>
       ELSE /\ submits < MaxSubmits
            /\ submits' = submits + 1
            /\ \E now \in clock..MaxClock :
                /\ clock' = now
                /\ booking' = [booking EXCEPT ![s] =
                        MakeBooking(f, selected_room, n, amount, now)]
            /\ form' = [form EXCEPT ![s] = f]
            /\ nights' = [nights EXCEPT ![s] = n]
            /\ total_amount' = [total_amount EXCEPT ![s] = amount]
            /\ pc' = [pc EXCEPT ![s] = "load_bookings"]
            /\ UNCHANGED <<rooms, bookings, customers, shown>>
    /\ UNCHANGED <<files, updates, faults, direct>>

(* A submitted run of the form, lines 246-321, in one step.  The room type *)
(* is one of the types of the run's available rooms (the selectbox         *)
(* options, line 262).                                                     *)
Submit(s) ==
    /\ pc[s] = "form"
    /\ \E r \in SampleRequests :
       \E room_type \in SampleTypes \cap RoomTypeOptions(AvailableRooms(rooms[s])) :
        LET f == FormValues(r, room_type)
        IN  Handle(s, f, Nights(f), PriceShown(f))

(* The same run in two steps: lines 246-277, then lines 281-321. *)
ReadForm(s) ==
    /\ pc[s] = "form"
    /\ \E r \in AllRequests :
       \E room_type \in RoomTypeOptions(AvailableRooms(rooms[s])) :
        LET f == FormValues(r, room_type)
        IN  /\ form' = [form EXCEPT ![s] = f]
            /\ nights' = [nights EXCEPT ![s] = Nights(f)]
            /\ total_amount' = [total_amount EXCEPT ![s] = PriceShown(f)]
    /\ pc' = [pc EXCEPT ![s] = "submitted"]
    /\ UNCHANGED <<files, clock, rooms, booking, bookings, customers, shown,
                   counters, direct>>

Validate(s) ==
    /\ pc[s] = "submitted"
    /\ Handle(s, form[s], nights[s], total_amount[s])

(* Line 324 *)
LoadBookings(s) ==
    /\ pc[s] = "load_bookings"
    /\ \E ok \in LoadOutcomes(bookingsFile) :
        /\ bookings' = [bookings EXCEPT ![s] = load_data(bookingsFile, ok)]
        /\ CountFault(ok)
    /\ pc' = [pc EXCEPT ![s] = "save_bookings"]
    /\ UNCHANGED <<files, clock, rooms, form, nights, total_amount, booking,
                   customers, shown, submits, updates, direct>>

SaveBookings_andRooms(s) ==
    /\ pc[s] = "save_bookings"
    /\ bookings' = [bookings EXCEPT ![s] = Append(bookings[s], booking[s])]
    /\ bookingsFile' = bookings'[s]
    /\ roomsFile' = MarkOccupied(rooms[s], booking[s].room_number)
    /\ pc' = [pc EXCEPT ![s] = "save_rooms"]
    /\ UNCHANGED <<customersFile, clock, rooms, form, nights,
                   total_amount, booking, customers, shown, counters, direct>>

(* Lines 325-326 *)
SaveBookings(s) ==
    /\ pc[s] = "save_bookings"
    /\ bookings' = [bookings EXCEPT ![s] = Append(bookings[s], booking[s])]
    /\ bookingsFile' = bookings'[s]
    /\ pc' = [pc EXCEPT ![s] = "save_rooms"]
    /\ UNCHANGED <<roomsFile, customersFile, clock, rooms, form, nights,
                   total_amount, booking, customers, shown, counters, direct>>

(* Lines 328-332 *)
SaveRooms(s) ==
    /\ pc[s] = "save_rooms"
    /\ rooms' = [rooms EXCEPT ![s] =
            MarkOccupied(rooms[s], booking[s].room_number)]
    /\ roomsFile' = rooms'[s]
    /\ pc' = [pc EXCEPT ![s] = "load_customers"]
    /\ UNCHANGED <<bookingsFile, customersFile, clock, form, nights,
                   total_amount, booking, bookings, customers, shown,
                   counters, direct>>

(* Line 335 *)
LoadCustomers(s) ==
    /\ pc[s] = "load_customers"
    /\ \E ok \in LoadOutcomes(customersFile) :
        /\ customers' = [customers EXCEPT ![s] = load_data(customersFile, ok)]
        /\ CountFault(ok)
    /\ pc' = [pc EXCEPT ![s] = "save_customers"]
    /\ UNCHANGED <<files, clock, rooms, form, nights, total_amount, booking,
                   bookings, shown, submits, updates, direct>>

(* Lines 336-348 *)
SaveCustomers(s) ==
    /\ pc[s] = "save_customers"
    /\ IF IsNewCustomer(customers[s], booking[s].customer_email)
       THEN customersFile' = Append(customers[s], MakeCustomer(booking[s]))
       ELSE UNCHANGED customersFile
    /\ shown' = [shown EXCEPT ![s] = <<"Booking confirmed!">>]
    /\ pc' = [pc EXCEPT ![s] = "idle"]
    /\ EndRun(s)
    /\ UNCHANGED <<roomsFile, bookingsFile, clock, counters, direct>>

-----------------------------------------------------------------------------
(* room_management (lines 361-399) *)

(* Line 366.  The bookings read on line 367 is not used by the page. *)
BeginManage(s) ==
    /\ pc[s] = "idle"
    /\ updates < MaxUpdates
    /\ \E ok \in LoadOutcomes(roomsFile) :
        /\ rooms' = [rooms EXCEPT ![s] = load_data(roomsFile, ok)]
        /\ CountFault(ok)
    /\ shown' = [shown EXCEPT ![s] = <<>>]
    /\ pc' = [pc EXCEPT ![s] = "manage"]
    /\ UNCHANGED <<files, clock, form, nights, total_amount, booking,
                   bookings, customers, submits, updates, direct>>

(* The rooms the operator of the model picks among. *)
ManagedRooms == {"101", "401"}

(* The selectbox of line 384 offers the room numbers read; with none to    *)
(* offer it returns None.                                                  *)
RoomOptions(rs) ==
    IF rs = <<>> THEN {"None"}
    ELSE {rs[i].room_number : i \in DOMAIN rs} \cap ManagedRooms

(* Lines 392-399 *)
UpdateStatus(s) ==
    /\ pc[s] = "manage"
    /\ updates < MaxUpdates
    /\ \E room_to_update \in RoomOptions(rooms[s]) : \E new_status \in Statuses :
        roomsFile' = SetStatus(rooms[s], room_to_update, new_status)
    /\ rooms' = [rooms EXCEPT ![s] = <<>>]
    /\ updates' = updates + 1
    /\ pc' = [pc EXCEPT ![s] = "idle"]
    /\ UNCHANGED <<bookingsFile, customersFile, clock, form, nights,
                   total_amount, booking, bookings, customers, shown,
                   submits, faults, direct>>

Next ==
    \E s \in Sessions :
        \/ InitializeLoad(s)
        \/ InitializeSeed(s)
        \/ BeginBooking(s)
        \/ Submit(s)
        \/ LoadBookings(s)
        \/ SaveBookings(s)
        \/ SaveRooms(s)
        \/ LoadCustomers(s)
        \/ SaveCustomers(s)
        \/ BeginManage(s)
        \/ UpdateStatus(s)

Spec == Init /\ [][Next]_vars

-----------------------------------------------------------------------------
(* One session at the booking form of a freshly seeded store, submitting   *)
(* any request of AllRequests once.                                        *)

InitForm ==
    /\ roomsFile = default_rooms
    /\ bookingsFile = <<>>
    /\ customersFile = <<>>
    /\ pc = [s \in Sessions |-> IF s = 1 THEN "form" ELSE "new"]
    /\ rooms = [s \in Sessions |-> IF s = 1 THEN default_rooms ELSE <<>>]
    /\ InitLocals
    /\ call = NoCall
    /\ ret = NoAmount

NextForm ==
    \E s \in Sessions :
        \/ ReadForm(s)
        \/ Validate(s)
        \/ LoadBookings(s)
        \/ SaveBookings(s)
        \/ SaveRooms(s)
        \/ LoadCustomers(s)
        \/ SaveCustomers(s)

SpecForm == InitForm /\ [][NextForm]_vars

(* calculate_booking_amount called directly with any arguments. *)

PriceCalls ==
    [room_type : RoomTypes \cup {"Penthouse"},
     nights : 1..MaxNights,
     guests : 1..MaxGuests]

InitPrice ==
    /\ InitStore
    /\ call \in PriceCalls
    /\ ret = NoAmount

Price ==
    /\ call # NoCall
    /\ ret = NoAmount
    /\ ret' = calculate_booking_amount(call.room_type, call.nights, call.guests)
    /\ UNCHANGED <<files, clock, pc, locals, shown, counters, call>>

SpecPrice == InitPrice /\ [][Price]_vars

-----------------------------------------------------------------------------
(* Properties *)

InSubmission(s) ==
    pc[s] \in {"load_bookings", "save_bookings", "save_rooms",
               "load_customers", "save_customers"}

Quiescent == \A s \in Sessions : ~InSubmission(s) /\ pc[s] # "seed"

AvailableOfType(rs, type) ==
    {i \in DOMAIN rs : rs[i].room_type = type /\ rs[i].status = "Available"}

(* The run of s read exactly one Available room of the type it books and   *)
(* has not yet touched its rooms list.                                     *)
BooksLastRoom(s) ==
    /\ pc[s] \in {"load_bookings", "save_bookings", "save_rooms"}
    /\ Cardinality(AvailableOfType(rooms[s], booking[s].room_type)) = 1

LastRoom(s) ==
    rooms[s][CHOOSE i \in AvailableOfType(rooms[s], booking[s].room_type) : TRUE]
        .room_number

CountEmail(custs, email) ==
    Cardinality({i \in DOMAIN custs : custs[i].email = email})

(* C1: two submissions that both read the same last Available room of a    *)
(* type never both succeed: once both have written their bookings, at most *)
(* one of the two bookings is in the bookings collection.                  *)
C1_LastRoomBookedOnce ==
    \A s, t \in Sessions :
        ( /\ s # t
          /\ pc[s] = "save_rooms" /\ BooksLastRoom(s)
          /\ pc[t] = "save_rooms" /\ BooksLastRoom(t)
          /\ LastRoom(s) = LastRoom(t) )
        => Cardinality({i \in DOMAIN bookingsFile :
                /\ bookingsFile[i] \in {booking[s], booking[t]}
                /\ bookingsFile[i].room_number = LastRoom(s)
                /\ bookingsFile[i].status = "Confirmed"}) <= 1

(* What C2 and C9 call a failing check. *)
FailsName(f) == strip(f.name) = <<>>
FailsEmail(f) == strip(f.email) = <<>> \/ ~validate_email(f.email)
FailsPhone(f) == strip(f.phone) = <<>> \/ ~validate_phone(f.phone)
FailsDates(f) == f.check_out <= f.check_in
FailsACheck(f) == FailsName(f) \/ FailsEmail(f) \/ FailsPhone(f) \/ FailsDates(f)

(* C2: a submission that fails a validation check (name, email, phone or   *)
(* check_out <= check_in) reports errors, ends, and leaves bookings, rooms *)
(* and customers as they were.                                             *)
C2_RejectedMutatesNothing ==
    [][\A s \in Sessions :
        ( pc[s] = "submitted" /\ FailsACheck(form[s]) )
        => /\ pc'[s] = "idle"
           /\ shown'[s] # <<>>
           /\ roomsFile' = roomsFile
           /\ bookingsFile' = bookingsFile
           /\ customersFile' = customersFile]_vars

C2_Witness ==
    \E s \in Sessions :
        /\ pc[s] = "idle"
        /\ shown[s] = <<"Check-out date must be after check-in date">>
        /\ roomsFile = default_rooms
        /\ bookingsFile = <<>>
        /\ customersFile = <<>>

(* C3: a valid submission whose run read exactly one Available room of the *)
(* requested type writes the bookings it read plus exactly one Confirmed   *)
(* booking for that room, with nights = check_out - check_in and           *)
(* total_amount = calculate_booking_amount(room_type, nights, guests), and *)
(* then writes the rooms it read with that room, and no other, flipped to  *)
(* Occupied.                                                               *)
C3_BooksTheOneRoom ==
    [][\A s \in Sessions :
        /\ ( pc[s] = "save_bookings" /\ pc'[s] = "save_rooms" /\ BooksLastRoom(s) )
           => /\ Len(bookingsFile') = Len(bookings[s]) + 1
              /\ SubSeq(bookingsFile', 1, Len(bookings[s])) = bookings[s]
              /\ LET b == bookingsFile'[Len(bookingsFile')] IN
                 /\ b.room_number = LastRoom(s)
                 /\ b.status = "Confirmed"
                 /\ b.room_type = form[s].room_type
                 /\ b.nights = form[s].check_out - form[s].check_in
                 /\ b.total_amount =
                        calculate_booking_amount(b.room_type, b.nights, b.guests)
        /\ ( pc[s] = "save_rooms" /\ pc'[s] = "load_customers" /\ BooksLastRoom(s) )
           => /\ Len(roomsFile') = Len(rooms[s])
              /\ \A i \in DOMAIN rooms[s] :
                    IF rooms[s][i].room_number = LastRoom(s)
                    THEN /\ rooms[s][i].status = "Available"
                         /\ roomsFile'[i] =
                                [rooms[s][i] EXCEPT !.status = "Occupied"]
                    ELSE roomsFile'[i] = rooms[s][i]]_vars

C3_Witness ==
    \E s \in Sessions :
        /\ pc[s] = "load_customers"
        /\ booking[s].room_number = "102"
        /\ roomsFile # <<>>
        /\ roomsFile[1].status = "Occupied"
        /\ roomsFile[2].status = "Occupied"
        /\ bookingsFile # <<>>
        /\ bookingsFile[Len(bookingsFile)] = booking[s]

(* C4: with no submission in progress, a room is Occupied if and only if a *)
(* Confirmed booking references it.                                        *)
C4_OccupiedIffBooked ==
    Quiescent =>
        \A i \in DOMAIN roomsFile :
            roomsFile[i].status = "Occupied"
            <=> \E j \in DOMAIN bookingsFile :
                    /\ bookingsFile[j].room_number = roomsFile[i].room_number
                    /\ bookingsFile[j].status = "Confirmed"

C6_UniqueBookingIds ==
    \A i, j \in DOMAIN bookingsFile :
        i # j => bookingsFile[i].booking_id # bookingsFile[j].booking_id

(* C8: a direct call returns (base_price * nights + max(0, guests - 2) *   *)
(* 500 * nights) * (1 - discount), with base_price 2500/4000/7500/15000    *)
(* for Standard/Deluxe/Suite/Presidential and 2500 for any other type, and *)
(* discount 15% from 7 nights, 10% from 3 nights, 0 below (in hundredths). *)
C8_PriceFormula ==
    ret # NoAmount =>
        LET base == CASE call.room_type = "Standard" -> 2500
                      [] call.room_type = "Deluxe" -> 4000
                      [] call.room_type = "Suite" -> 7500
                      [] call.room_type = "Presidential" -> 15000
                      [] OTHER -> 2500
            extra == IF call.guests > 2
                     THEN (call.guests - 2) * 500 * call.nights
                     ELSE 0
            percent == IF call.nights >= 7 THEN 85
                       ELSE IF call.nights >= 3 THEN 90
                       ELSE 100
        IN  ret = (base * call.nights + extra) * percent

C8_Witness ==
    /\ ret # NoAmount
    /\ call.room_type \notin RoomTypes
    /\ call.nights >= 7
    /\ call.guests > 2

(* C9: the errors reported for a submitted form are exactly one entry per  *)
(* failing check, in the order name, email, phone, dates.                  *)
C9_AllErrorsInOrder ==
    [][\A s \in Sessions :
        pc[s] = "submitted" =>
            LET failing == SelectSeq(<<"name", "email", "phone", "dates">>,
                    LAMBDA c :
                        \/ c = "name" /\ FailsName(form[s])
                        \/ c = "email" /\ FailsEmail(form[s])
                        \/ c = "phone" /\ FailsPhone(form[s])
                        \/ c = "dates" /\ FailsDates(form[s]))
                message == [c \in {"name", "email", "phone", "dates"} |->
                    CASE c = "name" -> "Customer name is required"
                      [] c = "email" -> "Valid email address is required"
                      [] c = "phone" -> "Valid phone number is required"
                      [] c = "dates" ->
                            "Check-out date must be after check-in date"]
            IN  failing # <<>> =>
                    /\ Len(shown'[s]) = Len(failing)
                    /\ \A i \in DOMAIN failing :
                            shown'[s][i] = message[failing[i]]]_vars

C9_Witness ==
    \E s \in Sessions :
        /\ pc[s] = "idle"
        /\ shown[s] = <<"Customer name is required",
                        "Valid phone number is required",
                        "Check-out date must be after check-in date">>

SelectedRoomFound ==
    [][\A s \in Sessions :
        ( pc[s] \in {"form", "submitted"} /\ pc'[s] = "idle" )
        => shown'[s] # <<>>]_vars


RoomNumbers(rs) == {rs[i].room_number : i \in DOMAIN rs}

(* C11: once the rooms collection holds rooms, no step changes the set of  *)
(* room numbers it holds.                                                  *)
C11_RoomsNeverDeleted ==
    [][roomsFile # <<>> => RoomNumbers(roomsFile') = RoomNumbers(roomsFile)]_vars

(* C12: every booking record of the bookings collection is still in it,    *)
(* with the same fields, after every step.                                 *)
C12_BookingsKept ==
    [][\A i \in DOMAIN bookingsFile :
        \E j \in DOMAIN bookingsFile' : bookingsFile'[j] = bookingsFile[i]]_vars

(* C13: the form prices a stay only when check_out - check_in > 0, and a    *)
(* request with check_out <= check_in is rejected with the date error      *)
(* and no booking is built for it.                                         *)
C13_PricedOnlyForPositiveNights ==
    [][\A s \in Sessions :
        /\ (pc[s] = "form" /\ pc'[s] = "submitted" /\ total_amount'[s] # NoAmount)
              => form'[s].check_out - form'[s].check_in > 0
        /\ (pc[s] = "submitted" /\ pc'[s] # "submitted" /\ FailsDates(form[s]))
              => /\ pc'[s] = "idle"
                 /\ booking'[s] = NoBooking
                 /\ \E i \in DOMAIN shown'[s] :
                       shown'[s][i] = "Check-out date must be after check-in date"
                 /\ files' = files]_vars

C13_Witness ==
    \E s \in Sessions :
        /\ pc[s] = "submitted"
        /\ form[s].check_out <= form[s].check_in
        /\ nights[s] <= 0
        /\ total_amount[s] = NoAmount

StatusOf(rs, number) ==
    {rs[i].status : i \in {j \in DOMAIN rs : rs[j].room_number = number}}

Persisted(b) == \E i \in DOMAIN bookingsFile : bookingsFile[i] = b

(* C14: a submission writes bookings, then rooms, then customers: before   *)
(* the bookings write nothing of it is persisted; after it the Confirmed   *)
(* booking is persisted while its room is still Available; after the rooms *)
(* write the room is Occupied and the booking persisted while the (new)    *)
(* email has no customer record; after the customers write it has one.     *)
C14_WriteOrder ==
    \A s \in Sessions :
        /\ pc[s] \in {"load_bookings", "save_bookings"}
              => /\ ~Persisted(booking[s])
                 /\ StatusOf(roomsFile, booking[s].room_number) = {"Available"}
                 /\ CountEmail(customersFile, booking[s].customer_email) = 0
        /\ pc[s] = "save_rooms"
              => /\ Persisted(booking[s])
                 /\ booking[s].status = "Confirmed"
                 /\ StatusOf(roomsFile, booking[s].room_number) = {"Available"}
                 /\ CountEmail(customersFile, booking[s].customer_email) = 0
        /\ pc[s] \in {"load_customers", "save_customers"}
              => /\ Persisted(booking[s])
                 /\ StatusOf(roomsFile, booking[s].room_number) = {"Occupied"}
                 /\ CountEmail(customersFile, booking[s].customer_email) = 0
        /\ (pc[s] = "idle" /\ bookingsFile # <<>>)
              => /\ StatusOf(roomsFile, bookingsFile[1].room_number) = {"Occupied"}
                 /\ CountEmail(customersFile, bookingsFile[1].customer_email) = 1

C14_Witness ==
    \E s \in Sessions :
        /\ pc[s] = "load_customers"
        /\ bookingsFile = <<booking[s]>>
        /\ StatusOf(roomsFile, booking[s].room_number) = {"Occupied"}
        /\ customersFile = <<>>

(* C15: the rooms write of a submission leaves the persisted status of     *)
(* every room other than the booked one as it was just before the write.   *)
C15_OtherRoomsKept ==
    [][\A s \in Sessions :
        (pc[s] = "save_rooms" /\ pc'[s] = "load_customers")
            => \A i \in DOMAIN roomsFile :
                  roomsFile[i].room_number # booking[s].room_number
                     => StatusOf(roomsFile', roomsFile[i].room_number)
                            = {roomsFile[i].status}]_vars

=============================================================================
